---- MODULE Spec2Model ----
(***************************************************************************)
(* Model of the product HTTP handler                                       *)
(* (product/delivery/http/product_handler.go).                             *)
(*                                                                         *)
(* A Go string is a sequence of code points, so Len is the rune count the  *)
(* validator's min/max rules use.  A *[]string is a record that keeps the  *)
(* nil pointer, the pointer to a nil slice and the pointer to an allocated *)
(* slice apart.  A JSON document is a function from the keys it holds to   *)
(* JSON values.                                                            *)
(***************************************************************************)
EXTENDS Integers, Sequences, FiniteSets, TLC

VARIABLES
    pc,          \* where the handler of the current request stands
    op,          \* the method of the current request
    pathID,      \* the {product_id} of its route
    body,        \* its body
    w,           \* its http.ResponseWriter
    svcCalls,    \* the calls it has made to the service, in order
    svcReturns,  \* how many of them have returned
    svcRet       \* what the last one returned

vars == <<pc, op, pathID, body, w, svcCalls, svcReturns, svcRet>>

(***************************************************************************)
(* Bounds of the model.                                                    *)
(***************************************************************************)
\* A request body differs from one of the two base documents (the complete
\* valid document, the empty document) in at most MaxEdits keys.
MaxEdits == 2

(***************************************************************************)
(* Strings.                                                                *)
(***************************************************************************)
Rep(c, n) == [i \in 1..n |-> c]

EmptyString == <<>>

IsDigit(c) == c >= 48 /\ c <= 57

IsLetter(c) == (c >= 97 /\ c <= 122) \/ (c >= 65 /\ c <= 90)

AllDigits(s) == \A i \in 1..Len(s) : IsDigit(s[i])

\* Index of the first c in s, or 0.
RECURSIVE IndexFrom(_, _, _)
IndexFrom(s, c, i) ==
    IF i > Len(s) THEN 0
    ELSE IF s[i] = c THEN i
    ELSE IndexFrom(s, c, i + 1)

Index(s, c) == IndexFrom(s, c, 1)

(***************************************************************************)
(* JSON values and documents.                                              *)
(***************************************************************************)
JStr(s) == [t |-> "string", s |-> s, a |-> <<>>]

JArr(a) == [t |-> "array", s |-> <<>>, a |-> a]

JNull == [t |-> "null", s |-> <<>>, a |-> <<>>]

JNum == [t |-> "number", s |-> <<>>, a |-> <<>>]

EmptyObject == [k \in {} |-> JNull]

Keys ==
    {"productId", "name", "image_closed", "image_open", "description", "story",
     "sourcing_values", "ingredients", "allergy_info", "dietary_certifications"}

(***************************************************************************)
(* *[]string                                                               *)
(***************************************************************************)
NilPtr == [ptr |-> FALSE, alloc |-> FALSE, elems |-> <<>>]

PtrToNilSlice == [ptr |-> TRUE, alloc |-> FALSE, elems |-> <<>>]

PtrToSlice(elems) == [ptr |-> TRUE, alloc |-> TRUE, elems |-> elems]

PtrFields == {"SourcingValues", "Ingredients"}

(***************************************************************************)
(* The wire names of the struct fields (the json tags).                    *)
(***************************************************************************)
JsonTag ==
    [ProductID |-> "productId", Name |-> "name",
     ImageClosedURL |-> "image_closed", ImageOpenURL |-> "image_open",
     Description |-> "description", Story |-> "story",
     SourcingValues |-> "sourcing_values", Ingredients |-> "ingredients",
     AllergyInfo |-> "allergy_info",
     DietaryCertification |-> "dietary_certifications"]

\* Fields of productCreateRequest, in declaration order.
CreateFields ==
    <<"ProductID", "Name", "ImageClosedURL", "ImageOpenURL", "Description",
      "Story", "SourcingValues", "Ingredients", "AllergyInfo",
      "DietaryCertification">>

\* Fields of productUpdateRequest, in declaration order.
UpdateFields ==
    <<"Name", "ImageClosedURL", "ImageOpenURL", "Description", "Story",
      "SourcingValues", "Ingredients", "AllergyInfo", "DietaryCertification">>

Range(seq) == {seq[i] : i \in 1..Len(seq)}

(***************************************************************************)
(* Validation rules (the validate tags).                                   *)
(***************************************************************************)
Rule(tag, param) == [tag |-> tag, param |-> param]

CreateRules ==
    [ProductID |-> <<Rule("required", 0), Rule("numeric", 0), Rule("min", 3)>>,
     Name |-> <<Rule("required", 0), Rule("ascii", 0), Rule("max", 50)>>,
     ImageClosedURL |-> <<Rule("omitempty", 0), Rule("uri", 0)>>,
     ImageOpenURL |-> <<Rule("omitempty", 0), Rule("uri", 0)>>,
     Description |-> <<Rule("required", 0), Rule("max", 100)>>,
     Story |-> <<Rule("omitempty", 0), Rule("max", 300)>>,
     SourcingValues |-> <<>>,
     Ingredients |-> <<>>,
     AllergyInfo |-> <<Rule("required", 0), Rule("max", 50)>>,
     DietaryCertification |-> <<Rule("required", 0), Rule("max", 25)>>]

UpdateRules ==
    [Name |-> <<Rule("omitempty", 0), Rule("ascii", 0), Rule("max", 50)>>,
     ImageClosedURL |-> <<Rule("omitempty", 0), Rule("uri", 0)>>,
     ImageOpenURL |-> <<Rule("omitempty", 0), Rule("uri", 0)>>,
     Description |-> <<Rule("omitempty", 0), Rule("max", 100)>>,
     Story |-> <<Rule("omitempty", 0), Rule("max", 300)>>,
     SourcingValues |-> <<Rule("omitempty", 0)>>,
     Ingredients |-> <<Rule("omitempty", 0)>>,
     AllergyInfo |-> <<Rule("omitempty", 0), Rule("max", 50)>>,
     DietaryCertification |-> <<Rule("omitempty", 0), Rule("max", 25)>>]

(***************************************************************************)
(* The validation/decoding unit (common/validator).  Decoding follows      *)
(* encoding/json: a key the struct does not declare is ignored, an absent  *)
(* or null key leaves the zero value, a value of the wrong JSON type is a  *)
(* decode failure.  Validation walks the fields in declaration order and   *)
(* the tags of a field from left to right.                                 *)
(***************************************************************************)
WantedType(f) == IF f \in PtrFields THEN "array" ELSE "string"

TypeMismatch(obj, f) ==
    /\ JsonTag[f] \in DOMAIN obj
    /\ obj[JsonTag[f]].t \notin {WantedType(f), "null"}

DecodeField(obj, f) ==
    IF JsonTag[f] \in DOMAIN obj /\ obj[JsonTag[f]].t = WantedType(f)
    THEN IF f \in PtrFields
         THEN PtrToSlice(obj[JsonTag[f]].a)
         ELSE obj[JsonTag[f]].s
    ELSE IF f \in PtrFields THEN NilPtr ELSE EmptyString

DecodeStruct(obj, fields) == [f \in Range(fields) |-> DecodeField(obj, f)]

DecodeFails(b, fields) ==
    \/ ~b.wellFormed
    \/ \E f \in Range(fields) : TypeMismatch(b.obj, f)

IsZero(f, v) == IF f \in PtrFields THEN ~v.ptr ELSE Len(v) = 0

IsASCII(s) == \A i \in 1..Len(s) : s[i] <= 127

\* ^[-+]?[0-9]+(?:\.[0-9]+)?$
IsNumeric(s) ==
    LET u == IF Len(s) > 0 /\ s[1] \in {43, 45} THEN Tail(s) ELSE s
        dot == Index(u, 46)
    IN  IF dot = 0
        THEN Len(u) > 0 /\ AllDigits(u)
        ELSE /\ dot > 1
             /\ dot < Len(u)
             /\ AllDigits(SubSeq(u, 1, dot - 1))
             /\ AllDigits(SubSeq(u, dot + 1, Len(u)))

\* Position of the colon that ends the scheme; 0 when there is no scheme,
\* -1 when the string starts with a colon (missing protocol scheme).
RECURSIVE SchemeEnd(_, _)
SchemeEnd(s, i) ==
    IF i > Len(s) THEN 0
    ELSE IF IsLetter(s[i]) THEN SchemeEnd(s, i + 1)
    ELSE IF IsDigit(s[i]) \/ s[i] \in {43, 45, 46}
         THEN IF i = 1 THEN 0 ELSE SchemeEnd(s, i + 1)
    ELSE IF s[i] = 58 THEN (IF i = 1 THEN -1 ELSE i)
    ELSE 0

\* The uri rule: the part before '#' is not empty and parses as a request
\* URI: no control character; "*", or a path starting with '/', or a
\* scheme followed by anything.
IsURI(s) ==
    LET hash == Index(s, 35)
        t == IF hash = 0 THEN s ELSE SubSeq(s, 1, hash - 1)
        colon == SchemeEnd(t, 1)
        rest == IF colon > 0 THEN SubSeq(t, colon + 1, Len(t)) ELSE t
    IN  /\ Len(t) > 0
        /\ \A i \in 1..Len(t) : t[i] >= 32 /\ t[i] # 127
        /\ \/ t = <<42>>
           \/ /\ colon >= 0
              /\ \/ (Len(rest) > 0 /\ rest[1] = 47)
                 \/ colon > 0

RuleHolds(r, f, v) ==
    CASE r.tag = "required" -> ~IsZero(f, v)
      [] r.tag = "numeric" -> IsNumeric(v)
      [] r.tag = "ascii" -> IsASCII(v)
      [] r.tag = "uri" -> IsURI(v)
      [] r.tag = "min" -> Len(v) >= r.param
      [] r.tag = "max" -> Len(v) <= r.param
      [] OTHER -> TRUE

\* The first tag of the field, from position i on, that the value violates;
\* "" when there is none.  omitempty ends the walk on a zero value.
RECURSIVE FirstFailedTag(_, _, _, _)
FirstFailedTag(tags, f, v, i) ==
    IF i > Len(tags) THEN ""
    ELSE IF tags[i].tag = "omitempty"
         THEN IF IsZero(f, v) THEN "" ELSE FirstFailedTag(tags, f, v, i + 1)
    ELSE IF RuleHolds(tags[i], f, v) THEN FirstFailedTag(tags, f, v, i + 1)
    ELSE tags[i].tag

\* The message of the first violation in declaration order; "" when the
\* struct satisfies every rule.
RECURSIVE FirstViolation(_, _, _, _)
FirstViolation(value, fields, rules, i) ==
    IF i > Len(fields) THEN ""
    ELSE LET f == fields[i]
             tag == FirstFailedTag(rules[f], f, value[f], 1)
         IN  IF tag = "" THEN FirstViolation(value, fields, rules, i + 1)
             ELSE JsonTag[f] \o " failed on " \o tag

\* The *ValidationError of a body, by its Message(); "" stands for nil.
DecodeAndValidateJSON(b, fields, rules) ==
    IF DecodeFails(b, fields) THEN "failed to decode json body"
    ELSE FirstViolation(DecodeStruct(b.obj, fields), fields, rules, 1)

ValidateJSON(b, fields, rules) == DecodeAndValidateJSON(b, fields, rules)

(***************************************************************************)
(* Representation mapper.                                                  *)
(***************************************************************************)
\* createToProduct with the Story line missing.
createToProduct_DropsStory(requestData) ==
    [ProductID |-> requestData.ProductID,
     Name |-> requestData.Name,
     ImageClosedURL |-> requestData.ImageClosedURL,
     ImageOpenURL |-> requestData.ImageOpenURL,
     Description |-> requestData.Description,
     Story |-> EmptyString,
     SourcingValues |-> requestData.SourcingValues,
     Ingredients |-> requestData.Ingredients,
     AllergyInfo |-> requestData.AllergyInfo,
     DietaryCertification |-> requestData.DietaryCertification]

createToProduct(requestData) ==
    [ProductID |-> requestData.ProductID,
     Name |-> requestData.Name,
     ImageClosedURL |-> requestData.ImageClosedURL,
     ImageOpenURL |-> requestData.ImageOpenURL,
     Description |-> requestData.Description,
     Story |-> requestData.Story,
     SourcingValues |-> requestData.SourcingValues,
     Ingredients |-> requestData.Ingredients,
     AllergyInfo |-> requestData.AllergyInfo,
     DietaryCertification |-> requestData.DietaryCertification]

updateToProduct(requestData) ==
    [ProductID |-> EmptyString,
     Name |-> requestData.Name,
     ImageClosedURL |-> requestData.ImageClosedURL,
     ImageOpenURL |-> requestData.ImageOpenURL,
     Description |-> requestData.Description,
     Story |-> requestData.Story,
     SourcingValues |-> requestData.SourcingValues,
     Ingredients |-> requestData.Ingredients,
     AllergyInfo |-> requestData.AllergyInfo,
     DietaryCertification |-> requestData.DietaryCertification]

\* newSingleResponse with the two image fields crossed.
newSingleResponse_SwapsImages(product) ==
    [Data |->
        [ProductID |-> product.ProductID,
         Name |-> product.Name,
         ImageClosedURL |-> product.ImageOpenURL,
         ImageOpenURL |-> product.ImageClosedURL,
         Description |-> product.Description,
         Story |-> product.Story,
         SourcingValues |-> product.SourcingValues,
         Ingredients |-> product.Ingredients,
         AllergyInfo |-> product.AllergyInfo,
         DietaryCertification |-> product.DietaryCertification]]

newSingleResponse(product) ==
    [Data |->
        [ProductID |-> product.ProductID,
         Name |-> product.Name,
         ImageClosedURL |-> product.ImageClosedURL,
         ImageOpenURL |-> product.ImageOpenURL,
         Description |-> product.Description,
         Story |-> product.Story,
         SourcingValues |-> product.SourcingValues,
         Ingredients |-> product.Ingredients,
         AllergyInfo |-> product.AllergyInfo,
         DietaryCertification |-> product.DietaryCertification]]

\* The zero domain.Product.
ZeroProduct ==
    [f \in Range(CreateFields) |-> IF f \in PtrFields THEN NilPtr ELSE EmptyString]

(***************************************************************************)
(* JSON encoding of the two envelopes.  A body is the set of its top-level *)
(* keys with the value of each.                                            *)
(***************************************************************************)
\* productResponseData: a string field is always written; a pointer field
\* tagged omitempty is left out when the pointer is nil, and otherwise
\* written as its slice (null for a nil slice).
EncodeResponseData(data) ==
    LET written == {f \in Range(CreateFields) :
                        f \in PtrFields => data[f].ptr}
        fieldOf(k) == CHOOSE f \in written : JsonTag[f] = k
    IN  [k \in {JsonTag[f] : f \in written} |->
            IF fieldOf(k) \in PtrFields
            THEN IF data[fieldOf(k)].alloc
                 THEN JArr(data[fieldOf(k)].elems)
                 ELSE JNull
            ELSE JStr(data[fieldOf(k)])]

EncodeSingleResponse(response) ==
    [keys |-> {"product"}, message |-> "",
     product |-> EncodeResponseData(response.Data)]

EncodeMessageError(errMsg) ==
    [keys |-> {"message"}, message |-> errMsg, product |-> EmptyObject]

(***************************************************************************)
(* http.ResponseWriter: the content type set, every status code handed to  *)
(* WriteHeader (by the handler or by the first Write), every body written. *)
(***************************************************************************)
StatusOK == 200
StatusCreated == 201
StatusBadRequest == 400
StatusUnauthorized == 401
StatusNotFound == 404
StatusInternalServerError == 500

NewWriter == [contentType |-> "", statuses |-> <<>>, bodies |-> <<>>]

SetContentType(writer) == [writer EXCEPT !.contentType = "application/json"]

WriteHeader(writer, status) ==
    [writer EXCEPT !.statuses = Append(@, status)]

\* The first Write of a response that has no status yet sends 200.
Encode(writer, jsonBody) ==
    LET w1 == IF writer.statuses = <<>> THEN WriteHeader(writer, StatusOK)
              ELSE writer
    IN  [w1 EXCEPT !.bodies = Append(@, jsonBody)]

\* The status the client receives: the first one written.
SentStatus(writer) == Head(writer.statuses)

\* writeErrorMessage encoding the body before it writes the header.
writeErrorMessage_EncodeFirst(writer, errMsg, httpStatus) ==
    WriteHeader(Encode(writer, EncodeMessageError(errMsg)), httpStatus)

writeErrorMessage(writer, errMsg, httpStatus) ==
    Encode(WriteHeader(writer, httpStatus), EncodeMessageError(errMsg))

(***************************************************************************)
(* Error-to-status translator.  An error is named by its identity; "nil"   *)
(* is the nil error.                                                       *)
(***************************************************************************)
\* getResponseStatus answering a conflict with 409.
getResponseStatus_Conflict409(err) ==
    CASE err = "nil" -> StatusOK
      [] err \in {"ErrAuthFail", "ErrExpiredToken"} -> StatusUnauthorized
      [] err = "ErrBadParamInput" -> StatusBadRequest
      [] err = "ErrConflict" -> 409
      [] err = "ErrResourceNotFound" -> StatusNotFound
      [] OTHER -> StatusInternalServerError

getResponseStatus(err) ==
    CASE err = "nil" -> StatusOK
      [] err \in {"ErrAuthFail", "ErrExpiredToken"} -> StatusUnauthorized
      [] err = "ErrBadParamInput" -> StatusBadRequest
      [] err = "ErrConflict" -> StatusOK
      [] err = "ErrResourceNotFound" -> StatusNotFound
      [] OTHER -> StatusInternalServerError

\* The errors a service call may return: the five the translator names, a
\* domain error it does not name, and an error wrapping ErrResourceNotFound
\* (a different value, so no case of the switch equals it).
Errors ==
    {"ErrAuthFail", "ErrExpiredToken", "ErrBadParamInput", "ErrConflict",
     "ErrResourceNotFound", "ErrInternalServerError", "wrapped:ErrResourceNotFound"}

\* err.Error()
ErrorText(err) ==
    CASE err = "ErrAuthFail" -> "authentication failed"
      [] err = "ErrExpiredToken" -> "token has expired"
      [] err = "ErrBadParamInput" -> "given param is not valid"
      [] err = "ErrConflict" -> "your item already exist"
      [] err = "ErrResourceNotFound" -> "your requested item is not found"
      [] err = "ErrInternalServerError" -> "internal server error"
      [] OTHER -> "get product: your requested item is not found"

(***************************************************************************)
(* The requests and service results the model draws from.                  *)
(***************************************************************************)
Present(v) == [present |-> TRUE, val |-> v]

Absent == [present |-> FALSE, val |-> JNull]

\* The complete valid document:
\* {"productId":"123","name":"Van","image_closed":"/a",
\*  "image_open":"http://x","description":"d","story":"s",
\*  "sourcing_values":["a"],"ingredients":["m"],"allergy_info":"n",
\*  "dietary_certifications":"k"}
FullDoc ==
    [productId |-> Present(JStr(<<49, 50, 51>>)),
     name |-> Present(JStr(<<86, 97, 110>>)),
     image_closed |-> Present(JStr(<<47, 97>>)),
     image_open |-> Present(JStr(<<104, 116, 116, 112, 58, 47, 47, 120>>)),
     description |-> Present(JStr(<<100>>)),
     story |-> Present(JStr(<<115>>)),
     sourcing_values |-> Present(JArr(<< <<97>> >>)),
     ingredients |-> Present(JArr(<< <<109>> >>)),
     allergy_info |-> Present(JStr(<<110>>)),
     dietary_certifications |-> Present(JStr(<<107>>))]

EmptyDoc == [k \in Keys |-> Absent]

\* What an edit may put in place of a key.
Alts ==
    [productId |->
        <<Absent, Present(JStr(<<49, 50>>)), Present(JStr(<<49, 50, 97>>)),
          Present(JStr(<<45, 52, 46, 53>>))>>,
     name |->
        <<Absent, Present(JStr(<<88>>)), Present(JStr(Rep(97, 51))),
          Present(JStr(<<233>>)), Present(JNum)>>,
     image_closed |->
        <<Absent, Present(JStr(<<97, 98>>)), Present(JStr(<<58, 120>>)),
          Present(JStr(<<47, 35, 1>>))>>,
     image_open |->
        <<Absent, Present(JStr(<<35, 47>>)),
          Present(JStr(<<109, 97, 105, 108, 116, 111, 58, 120>>))>>,
     description |->
        <<Absent, Present(JStr(Rep(100, 100))), Present(JStr(Rep(100, 101)))>>,
     story |->
        <<Absent, Present(JNull), Present(JStr(Rep(115, 300))),
          Present(JStr(Rep(115, 301)))>>,
     sourcing_values |->
        <<Absent, Present(JNull), Present(JArr(<<>>)),
          Present(JArr(<< <<97>>, <<98>> >>))>>,
     ingredients |->
        <<Absent, Present(JNull), Present(JArr(<<>>)), Present(JStr(<<109>>))>>,
     allergy_info |->
        <<Absent, Present(JStr(EmptyString)), Present(JStr(Rep(110, 51)))>>,
     dietary_certifications |->
        <<Absent, Present(JStr(Rep(107, 25))), Present(JStr(Rep(107, 26)))>>]

ToObject(doc) == [k \in {j \in Keys : doc[j].present} |-> doc[k].val]

EditSets == {S \in SUBSET Keys : Cardinality(S) <= MaxEdits}

AltCount == [k \in Keys |-> Len(Alts[k])]

AltIndices == UNION {1..AltCount[k] : k \in Keys}

EditsOf(S) == {g \in [S -> AltIndices] : \A k \in S : g[k] <= AltCount[k]}

\* An edit names, for each key it touches, the alternative it puts there.
Edits == UNION {EditsOf(S) : S \in EditSets}

BaseDocs == {FullDoc, EmptyDoc}

\* The body that holds base with the keys of g replaced as g says.
EditedBody(base, g) ==
    [wellFormed |-> TRUE,
     obj |-> ToObject([k \in Keys |->
                IF k \in DOMAIN g THEN Alts[k][g[k]] ELSE base[k]])]

\* A body that is not JSON (or no body at all).
Malformed == [wellFormed |-> FALSE, obj |-> EmptyObject]

\* The {product_id} of the route: "123", "77".
PathIDs == {<<49, 50, 51>>, <<55, 55>>}

PtrValues ==
    {NilPtr, PtrToNilSlice, PtrToSlice(<<>>), PtrToSlice(<< <<97>> >>)}

\* The products GetProduct may return.
Products ==
    {[DecodeStruct(ToObject(FullDoc), CreateFields)
        EXCEPT !.SourcingValues = x, !.Ingredients = y] :
            x \in PtrValues, y \in PtrValues}

(***************************************************************************)
(* The handlers.  A handler runs up to its call of the service (Invoke),   *)
(* blocks until the service returns (ServiceReturn), and then writes the   *)
(* response (Respond).  A write handler that rejects the body writes the   *)
(* response in its first step.                                             *)
(***************************************************************************)
Call(method, id, product) == [method |-> method, id |-> id, product |-> product]

NoResult == [err |-> "nil", product |-> ZeroProduct]

Init ==
    /\ pc = "idle"
    /\ op = "none"
    /\ pathID = EmptyString
    /\ body = Malformed
    /\ w = NewWriter
    /\ svcCalls = <<>>
    /\ svcReturns = 0
    /\ svcRet = NoResult

handleGetProductInvoke(id) ==
    /\ pc = "idle"
    /\ op' = "GET"
    /\ pathID' = id
    /\ w' = SetContentType(w)
    /\ svcCalls' = Append(svcCalls, Call("GetProduct", id, ZeroProduct))
    /\ pc' = "calling"
    /\ UNCHANGED <<body, svcReturns, svcRet>>

handleGetProductRespond ==
    /\ pc = "returned"
    /\ op = "GET"
    /\ w' = IF svcRet.err # "nil"
            THEN writeErrorMessage(w, ErrorText(svcRet.err),
                                   getResponseStatus(svcRet.err))
            ELSE Encode(w, EncodeSingleResponse(newSingleResponse(svcRet.product)))
    /\ pc' = "done"
    /\ UNCHANGED <<op, pathID, body, svcCalls, svcReturns, svcRet>>

\* handleCreateProduct without the return that follows the 400.
handleCreateProductInvoke_NoReturn(b) ==
    /\ pc = "idle"
    /\ op' = "POST"
    /\ body' = b
    /\ LET verr == DecodeAndValidateJSON(b, CreateFields, CreateRules)
           productCreate == DecodeStruct(b.obj, CreateFields)
       IN  /\ w' = IF verr # ""
                   THEN writeErrorMessage(SetContentType(w), verr, StatusBadRequest)
                   ELSE SetContentType(w)
           /\ svcCalls' = Append(svcCalls,
                   Call("CreateProduct", EmptyString,
                        createToProduct(productCreate)))
           /\ pc' = "calling"
    /\ UNCHANGED <<pathID, svcReturns, svcRet>>

handleCreateProductInvoke(b) ==
    /\ pc = "idle"
    /\ op' = "POST"
    /\ body' = b
    /\ LET verr == DecodeAndValidateJSON(b, CreateFields, CreateRules)
           productCreate == DecodeStruct(b.obj, CreateFields)
       IN  IF verr # ""
           THEN /\ w' = writeErrorMessage(SetContentType(w), verr, StatusBadRequest)
                /\ pc' = "done"
                /\ UNCHANGED svcCalls
           ELSE /\ w' = SetContentType(w)
                /\ svcCalls' = Append(svcCalls,
                        Call("CreateProduct", EmptyString,
                             createToProduct(productCreate)))
                /\ pc' = "calling"
    /\ UNCHANGED <<pathID, svcReturns, svcRet>>

handleCreateProductRespond ==
    /\ pc = "returned"
    /\ op = "POST"
    /\ w' = IF svcRet.err # "nil"
            THEN writeErrorMessage(w, ErrorText(svcRet.err),
                                   getResponseStatus(svcRet.err))
            ELSE WriteHeader(w, StatusCreated)
    /\ pc' = "done"
    /\ UNCHANGED <<op, pathID, body, svcCalls, svcReturns, svcRet>>

\* handleUpdateProduct without product.ProductID = productID.
handleUpdateProductInvoke_NoForcedID(id, b) ==
    /\ pc = "idle"
    /\ op' = "PUT"
    /\ pathID' = id
    /\ body' = b
    /\ LET verr == ValidateJSON(b, UpdateFields, UpdateRules)
           productUpdate == DecodeStruct(b.obj, UpdateFields)
           product == updateToProduct(productUpdate)
       IN  IF verr # ""
           THEN /\ w' = writeErrorMessage(SetContentType(w), verr, StatusBadRequest)
                /\ pc' = "done"
                /\ UNCHANGED svcCalls
           ELSE /\ w' = SetContentType(w)
                /\ svcCalls' = Append(svcCalls, Call("UpdateProduct", id, product))
                /\ pc' = "calling"
    /\ UNCHANGED <<svcReturns, svcRet>>

\* handleUpdateProduct without the return that follows the 400.
handleUpdateProductInvoke_NoReturn(id, b) ==
    /\ pc = "idle"
    /\ op' = "PUT"
    /\ pathID' = id
    /\ body' = b
    /\ LET verr == ValidateJSON(b, UpdateFields, UpdateRules)
           productUpdate == DecodeStruct(b.obj, UpdateFields)
           product == [updateToProduct(productUpdate) EXCEPT !.ProductID = id]
       IN  /\ w' = IF verr # ""
                   THEN writeErrorMessage(SetContentType(w), verr, StatusBadRequest)
                   ELSE SetContentType(w)
           /\ svcCalls' = Append(svcCalls, Call("UpdateProduct", id, product))
           /\ pc' = "calling"
    /\ UNCHANGED <<svcReturns, svcRet>>

handleUpdateProductInvoke(id, b) ==
    /\ pc = "idle"
    /\ op' = "PUT"
    /\ pathID' = id
    /\ body' = b
    /\ LET verr == ValidateJSON(b, UpdateFields, UpdateRules)
           productUpdate == DecodeStruct(b.obj, UpdateFields)
           product == [updateToProduct(productUpdate) EXCEPT !.ProductID = id]
       IN  IF verr # ""
           THEN /\ w' = writeErrorMessage(SetContentType(w), verr, StatusBadRequest)
                /\ pc' = "done"
                /\ UNCHANGED svcCalls
           ELSE /\ w' = SetContentType(w)
                /\ svcCalls' = Append(svcCalls, Call("UpdateProduct", id, product))
                /\ pc' = "calling"
    /\ UNCHANGED <<svcReturns, svcRet>>

handleUpdateProductRespond ==
    /\ pc = "returned"
    /\ op = "PUT"
    /\ w' = IF svcRet.err # "nil"
            THEN writeErrorMessage(w, ErrorText(svcRet.err),
                                   getResponseStatus(svcRet.err))
            ELSE WriteHeader(w, StatusOK)
    /\ pc' = "done"
    /\ UNCHANGED <<op, pathID, body, svcCalls, svcReturns, svcRet>>

handleDeleteProductInvoke(id) ==
    /\ pc = "idle"
    /\ op' = "DELETE"
    /\ pathID' = id
    /\ w' = SetContentType(w)
    /\ svcCalls' = Append(svcCalls, Call("DeleteProduct", id, ZeroProduct))
    /\ pc' = "calling"
    /\ UNCHANGED <<body, svcReturns, svcRet>>

\* handleDeleteProduct calling the service again when it fails.
handleDeleteProductRespond_Retry ==
    /\ pc = "returned"
    /\ op = "DELETE"
    /\ IF svcRet.err # "nil"
       THEN /\ svcCalls' = Append(svcCalls, Call("DeleteProduct", pathID, ZeroProduct))
            /\ pc' = "calling"
            /\ UNCHANGED w
       ELSE /\ w' = WriteHeader(w, StatusOK)
            /\ pc' = "done"
            /\ UNCHANGED svcCalls
    /\ UNCHANGED <<op, pathID, body, svcReturns, svcRet>>

handleDeleteProductRespond ==
    /\ pc = "returned"
    /\ op = "DELETE"
    /\ w' = IF svcRet.err # "nil"
            THEN writeErrorMessage(w, ErrorText(svcRet.err),
                                   getResponseStatus(svcRet.err))
            ELSE WriteHeader(w, StatusOK)
    /\ pc' = "done"
    /\ UNCHANGED <<op, pathID, body, svcCalls, svcReturns, svcRet>>

\* The service collaborator returns: nil (with a product, for GetProduct)
\* or an error.
ServiceReturn ==
    /\ pc = "calling"
    /\ \/ \E e \in Errors : svcRet' = [err |-> e, product |-> ZeroProduct]
       \/ /\ op = "GET"
          /\ \E p \in Products : svcRet' = [err |-> "nil", product |-> p]
       \/ /\ op # "GET"
          /\ svcRet' = NoResult
    /\ svcReturns' = svcReturns + 1
    /\ pc' = "returned"
    /\ UNCHANGED <<op, pathID, body, w, svcCalls>>

\* The next request arrives with a response writer of its own.
NextRequest ==
    /\ pc = "done"
    /\ pc' = "idle"
    /\ op' = "none"
    /\ pathID' = EmptyString
    /\ body' = Malformed
    /\ w' = NewWriter
    /\ svcCalls' = <<>>
    /\ svcReturns' = 0
    /\ svcRet' = NoResult

\* The routes: the router hands a request to the handler registered for
\* its method and path.
PRODUCT_GET ==
    /\ pc = "idle"
    /\ \E id \in PathIDs : handleGetProductInvoke(id)

PRODUCT_UPDATE ==
    /\ pc = "idle"
    /\ \/ \E id \in PathIDs, base \in BaseDocs, g \in Edits :
              handleUpdateProductInvoke(id, EditedBody(base, g))
       \/ \E id \in PathIDs : handleUpdateProductInvoke(id, Malformed)

PRODUCT_DELETE ==
    /\ pc = "idle"
    /\ \E id \in PathIDs : handleDeleteProductInvoke(id)

PRODUCT_CREATE ==
    /\ pc = "idle"
    /\ \/ \E base \in BaseDocs, g \in Edits :
              handleCreateProductInvoke(EditedBody(base, g))
       \/ handleCreateProductInvoke(Malformed)

Next ==
    \/ PRODUCT_GET
    \/ PRODUCT_UPDATE
    \/ PRODUCT_DELETE
    \/ PRODUCT_CREATE
    \/ handleGetProductRespond
    \/ handleCreateProductRespond
    \/ handleUpdateProductRespond
    \/ handleDeleteProductRespond
    \/ ServiceReturn
    \/ NextRequest

Spec == Init /\ [][Next]_vars

(***************************************************************************)
(* Properties.                                                             *)
(***************************************************************************)
StringFields == Range(CreateFields) \ PtrFields

\* The body does not decode, or some field of the decoded struct violates
\* one of its tags.
ViolatesRules(b, fields, rules) ==
    \/ DecodeFails(b, fields)
    \/ \E f \in Range(fields) :
          FirstFailedTag(rules[f], f, DecodeStruct(b.obj, fields)[f], 1) # ""

CreateRequestInvalid(b) == ViolatesRules(b, CreateFields, CreateRules)

UpdateRequestInvalid(b) == ViolatesRules(b, UpdateFields, UpdateRules)

\* The body is JSON and holds no name, or an empty one.
NameMissing(b) ==
    /\ b.wellFormed
    /\ "name" \in DOMAIN b.obj => b.obj["name"].s = EmptyString

IsErrorEnvelope(jsonBody) == jsonBody.keys = {"message"}

IsResponseEnvelope(jsonBody) == jsonBody.keys = {"product"}

\* The service has returned an error to the handler, which has answered.
AnsweredError == pc = "done" /\ svcReturns > 0 /\ svcRet.err # "nil"

\* The service has returned without error, and the handler has answered.
AnsweredSuccess == pc = "done" /\ svcReturns > 0 /\ svcRet.err = "nil"

\* C1: a Create body that fails decoding or violates a CreateRequest field
\* rule (an empty name, for one) is answered 400 and never reaches
\* service.CreateProduct; the service is called only for a body that passed
\* decode+validate.
C1_InvalidCreateNeverReachesService ==
    op = "POST" =>
        /\ CreateRequestInvalid(body) =>
              /\ pc = "done"
              /\ svcCalls = <<>>
              /\ w.statuses = <<400>>
        /\ NameMissing(body) => svcCalls = <<>> /\ w.statuses = <<400>>
        /\ svcCalls # <<>> => ~CreateRequestInvalid(body)

\* A Create body complete but for its name has been answered 400 without a
\* call of the service.
C1_Witness ==
    /\ op = "POST"
    /\ pc = "done"
    /\ body.wellFormed
    /\ DOMAIN body.obj = Keys \ {"name"}
    /\ w.statuses = <<400>>
    /\ svcCalls = <<>>

\* C2: in Update, a body that passes decode+validate reaches
\* service.UpdateProduct with the path id both as the id argument and as the
\* product's ProductID, whatever productId the body holds; updateToProduct
\* leaves ProductID blank.
C2_UpdateIdentityFromPath ==
    op = "PUT" =>
        /\ ~UpdateRequestInvalid(body) => svcCalls # <<>>
        /\ \A i \in 1..Len(svcCalls) :
              /\ svcCalls[i].method = "UpdateProduct"
              /\ svcCalls[i].id = pathID
              /\ svcCalls[i].product.ProductID = pathID
              /\ updateToProduct(DecodeStruct(body.obj, UpdateFields)).ProductID
                    = EmptyString

\* An Update whose body holds a productId other than the path id has called
\* the service with the path id.
C2_Witness ==
    /\ op = "PUT"
    /\ svcCalls # <<>>
    /\ "productId" \in DOMAIN body.obj
    /\ body.obj["productId"].s # pathID
    /\ body.obj["productId"].s # EmptyString
    /\ svcCalls[1].product.ProductID = pathID

\* The translator table as documented.
DocumentedStatus(err) ==
    CASE err \in {"ErrAuthFail", "ErrExpiredToken"} -> 401
      [] err = "ErrBadParamInput" -> 400
      [] err = "ErrConflict" -> 200
      [] err = "ErrResourceNotFound" -> 404
      [] OTHER -> 500

\* C3: for each of the four operations and every error the service returns,
\* the handler writes the status of the translator table (401, 400, 200 for
\* a conflict, 404, and 500 for anything else) and an ErrorEnvelope whose
\* message is the error's text.
C3_ServiceErrorStatus ==
    AnsweredError =>
        /\ w.statuses # <<>>
        /\ SentStatus(w) = DocumentedStatus(svcRet.err)
        /\ w.bodies = <<[keys |-> {"message"}, message |-> ErrorText(svcRet.err),
                         product |-> EmptyObject]>>

\* A Get that the service answered "not found" has been answered 404 with
\* the error's text.
C3_Witness ==
    /\ op = "GET"
    /\ AnsweredError
    /\ svcRet.err = "ErrResourceNotFound"
    /\ SentStatus(w) = 404
    /\ w.bodies[1].message = "your requested item is not found"

\* The JSON object holds the product: each string field under its key, each
\* allocated sequence as an array under its key.
HoldsProduct(obj, product) ==
    /\ \A f \in StringFields :
          JsonTag[f] \in DOMAIN obj /\ obj[JsonTag[f]] = JStr(product[f])
    /\ \A f \in PtrFields :
          product[f].ptr /\ product[f].alloc =>
              JsonTag[f] \in DOMAIN obj
              /\ obj[JsonTag[f]] = JArr(product[f].elems)

\* C4: when the service returns no error, Get answers 200 with a
\* ResponseEnvelope holding the returned product, Create answers 201 with an
\* empty body, Update and Delete answer 200 with an empty body.
C4_SuccessResponses ==
    AnsweredSuccess =>
        CASE op = "GET" ->
                /\ w.statuses = <<200>>
                /\ Len(w.bodies) = 1
                /\ IsResponseEnvelope(w.bodies[1])
                /\ HoldsProduct(w.bodies[1].product, svcRet.product)
          [] op = "POST" -> w.statuses = <<201>> /\ w.bodies = <<>>
          [] op = "PUT" -> w.statuses = <<200>> /\ w.bodies = <<>>
          [] op = "DELETE" -> w.statuses = <<200>> /\ w.bodies = <<>>
          [] OTHER -> FALSE

\* A successful Get has been answered 200 with the product in a
\* ResponseEnvelope.
C4_Witness ==
    /\ op = "GET"
    /\ AnsweredSuccess
    /\ w.statuses = <<200>>
    /\ w.bodies[1].product["image_closed"] = JStr(<<47, 97>>)
    /\ "sourcing_values" \in DOMAIN w.bodies[1].product
    /\ w.bodies[1].product["sourcing_values"] = JArr(<< <<97>> >>)

\* C5: every response has one of the two documented shapes: the success
\* shape of its route (201 empty for POST, 200 empty for PUT and DELETE, 200
\* with a ResponseEnvelope for GET), or a 4xx/5xx status with an
\* ErrorEnvelope; an ErrorEnvelope is sent only with a 4xx or 5xx status.
C5_DocumentedShapes ==
    pc = "done" =>
        /\ w.statuses # <<>>
        /\ \/ /\ op = "POST"
              /\ SentStatus(w) = 201
              /\ w.bodies = <<>>
           \/ /\ op \in {"PUT", "DELETE"}
              /\ SentStatus(w) = 200
              /\ w.bodies = <<>>
           \/ /\ op = "GET"
              /\ SentStatus(w) = 200
              /\ Len(w.bodies) = 1
              /\ IsResponseEnvelope(w.bodies[1])
           \/ /\ SentStatus(w) \in 400..599
              /\ Len(w.bodies) = 1
              /\ IsErrorEnvelope(w.bodies[1])
        /\ \A i \in 1..Len(w.bodies) :
              IsErrorEnvelope(w.bodies[i]) => SentStatus(w) \in 400..599

\* C6: an Update body that is malformed or violates an UpdateRequest field
\* rule is handled in the handler: it is answered 400 with an ErrorEnvelope
\* carrying a message, and service.UpdateProduct is not called.
C6_InvalidUpdateHandledLocally ==
    op = "PUT" =>
        /\ UpdateRequestInvalid(body) =>
              /\ pc = "done"
              /\ svcCalls = <<>>
              /\ w.statuses = <<400>>
              /\ Len(w.bodies) = 1
              /\ IsErrorEnvelope(w.bodies[1])
              /\ w.bodies[1].message # ""
        /\ ~body.wellFormed => svcCalls = <<>> /\ w.statuses = <<400>>
        /\ svcCalls # <<>> => ~UpdateRequestInvalid(body)

\* An Update whose name is not ASCII has been answered 400 with the
\* violation, without a call of the service.
C6_Witness ==
    /\ op = "PUT"
    /\ pc = "done"
    /\ body.wellFormed
    /\ "name" \in DOMAIN body.obj
    /\ body.obj["name"].s = <<233>>
    /\ w.statuses = <<400>>
    /\ w.bodies[1].message = "name failed on ascii"
    /\ svcCalls = <<>>

\* C7: on every branch of every operation exactly one status code is
\* written per request and at most one body; no error causes a second
\* status or body write.
C7_SingleWrite ==
    /\ Len(w.statuses) <= 1
    /\ Len(w.bodies) <= 1
    /\ w.bodies # <<>> => w.statuses # <<>>
    /\ pc = "done" => Len(w.statuses) = 1

\* A Create that the service failed with an error the translator does not
\* name has been answered with one status and one body.
C7_Witness ==
    /\ op = "POST"
    /\ AnsweredError
    /\ svcRet.err = "ErrInternalServerError"
    /\ w.statuses = <<500>>
    /\ Len(w.bodies) = 1

\* The sequence field of the request as the mapper must carry it.
CarriedSequence(obj, key) ==
    IF key \in DOMAIN obj /\ obj[key].t = "array"
    THEN PtrToSlice(obj[key].a)
    ELSE NilPtr

\* C8: the optional sequence fields keep absent and present-but-empty apart
\* end to end: the mappers carry an absent sequence as absent and an empty
\* one as empty, and the serialized Get response omits the key of an absent
\* sequence and holds the key with an empty array for a sequence that is
\* present and empty.
C8_AbsentVersusEmpty ==
    /\ \A i \in 1..Len(svcCalls) : \A f \in PtrFields :
          svcCalls[i].method \in {"CreateProduct", "UpdateProduct"} =>
              /\ svcCalls[i].product[f] = CarriedSequence(body.obj, JsonTag[f])
              /\ newSingleResponse(svcCalls[i].product).Data[f]
                    = CarriedSequence(body.obj, JsonTag[f])
    /\ op = "GET" /\ AnsweredSuccess =>
          \A f \in PtrFields :
              /\ ~svcRet.product[f].ptr =>
                    JsonTag[f] \notin DOMAIN w.bodies[1].product
              /\ svcRet.product[f].ptr /\ svcRet.product[f].elems = <<>> =>
                    /\ JsonTag[f] \in DOMAIN w.bodies[1].product
                    /\ w.bodies[1].product[JsonTag[f]] = JArr(<<>>)

\* C9: a CreateRequest that satisfies every field rule passes
\* decode+validate, every field of the Product handed to
\* service.CreateProduct equals the request's field (no default, no field
\* dropped), and newSingleResponse of that Product has the request's ten
\* fields again.
C9_CreateRoundTrip ==
    op = "POST" =>
        /\ ~CreateRequestInvalid(body) => svcCalls # <<>>
        /\ \A i \in 1..Len(svcCalls) :
              /\ \A f \in Range(CreateFields) :
                    /\ svcCalls[i].product[f]
                          = DecodeStruct(body.obj, CreateFields)[f]
                    /\ newSingleResponse(svcCalls[i].product).Data[f]
                          = DecodeStruct(body.obj, CreateFields)[f]
              /\ \A f \in StringFields :
                    svcCalls[i].product[f] =
                        IF JsonTag[f] \in DOMAIN body.obj
                        THEN body.obj[JsonTag[f]].s
                        ELSE EmptyString
              /\ \A f \in PtrFields :
                    svcCalls[i].product[f]
                        = CarriedSequence(body.obj, JsonTag[f])

\* A Create holding all ten fields has reached the service with its story
\* and its sequences.
C9_Witness ==
    /\ op = "POST"
    /\ svcCalls # <<>>
    /\ DOMAIN body.obj = Keys
    /\ body.obj["story"].s = <<115>>
    /\ svcCalls[1].product.Story = <<115>>
    /\ svcCalls[1].product.SourcingValues = PtrToSlice(<< <<97>> >>)
    /\ svcCalls[1].product.ProductID = <<49, 50, 51>>

\* The calls of the service a finished request has made.
ExpectedCalls ==
    CASE op \in {"GET", "DELETE"} -> 1
      [] op = "POST" -> IF CreateRequestInvalid(body) THEN 0 ELSE 1
      [] op = "PUT" -> IF UpdateRequestInvalid(body) THEN 0 ELSE 1
      [] OTHER -> 0

\* C10: no operation is retried: a request calls the service at most once
\* (once for Get and Delete, once for a Create or Update whose body passed
\* decode+validate, never otherwise) whatever the service returns, and the
\* response is written only after that call has returned.
C10_NoRetry ==
    /\ Len(svcCalls) <= 1
    /\ svcReturns <= Len(svcCalls)
    /\ pc = "done" => Len(svcCalls) = ExpectedCalls
    /\ svcCalls # <<>> /\ (w.statuses # <<>> \/ w.bodies # <<>>) =>
          svcReturns = 1

\* A Delete that the service failed has been answered after one call.
C10_Witness ==
    /\ op = "DELETE"
    /\ AnsweredError
    /\ svcRet.err = "wrapped:ErrResourceNotFound"
    /\ Len(svcCalls) = 1
    /\ svcReturns = 1
    /\ w.statuses = <<500>>

====
